---- MODULE Spec2Model ----
(***************************************************************************)
(* Batch runner of scripts/modal_sandbox.py: main -> run_batch_async ->    *)
(* run_with_semaphore -> run_single_task_async, with the result volume.    *)
(* One action per handler between two suspension points of the event loop. *)
(***************************************************************************)
EXTENDS Integers, Sequences, FiniteSets, TLC

(* ------------------------------ bounds --------------------------------- *)
\* longest batch file (number of task objects) of Spec
MaxTasks == 2
\* most run tuples of a batch of Spec (tasks times variants)
MaxRuns == 4
\* longest batch file of PlanSpec, which stops before dispatch
MaxPlanTasks == 2
\* largest --parallel value
MaxParallel == 2
\* infrastructure incidents (Modal faults, sandbox timeouts, failed writes)
\* injected into one batch
MaxFaults == 1
\* tasks of a batch of GateSpec
MaxGateRuns == 3
\* the clock readings, in ticks, and the ticks of one second
MaxClock == 3
TicksPerSecond == 2

(* --------------------------- input values ------------------------------ *)
\* Python None
None == "<None>"
\* bool(x) of an optional string argument: None and "" are falsy
Truthy(x) == x # None /\ x # ""

SkillsPath == "eval/skills"
McpPath == "eval/mcp.json"
Model == "gpt-5-nano"
\* --api-url, what the lookup of the deployed litellm function gives, and
\* the fallback of discover_litellm_url
ApiUrl == "https://api"
ServiceUrl == "https://litellm"
LocalUrl == "http://localhost:4000"

\* task objects of the batch file: Python dicts, a key may be missing
TaskObjects ==
  { [prompt |-> "p"],
    [id |-> "a", prompt |-> "p"],
    [id |-> "a"] }
\* the batch files of PlanSpec: more ids, one of them of the synthesized form
PlanTaskObjects ==
  TaskObjects \cup { [id |-> "b", prompt |-> "p"], [id |-> "task-1", prompt |-> "p"] }

HasKey(d, k) == k \in DOMAIN d

\* f"task-{i}" for the run index i (0-based)
TaskNames ==
  << "task-0", "task-1", "task-2", "task-3", "task-4", "task-5", "task-6",
     "task-7", "task-8", "task-9", "task-10", "task-11", "task-12" >>
SynthId(i) == TaskNames[i + 1]

\* task.get("id", f"task-{i}")
TaskId(task, i) == IF HasKey(task, "id") THEN task.id ELSE SynthId(i)

SeqsUpTo(S, n) == UNION { [1..m -> S] : m \in 0..n }

(* ------------------------------ images --------------------------------- *)
\* an image is described by the payloads mounted into it
sandbox_image == [built |-> TRUE, skills |-> FALSE, mcp |-> FALSE]
\* a variant image that was not built (Python None)
NoImage == [built |-> FALSE, skills |-> FALSE, mcp |-> FALSE]

\* the existence of the assets is never looked at
AssetNeverMissing(sd, mc, files) == FALSE
\* build_sandbox_image ends the process when a configured asset is missing
AssetMissing(sd, mc, files) ==
  \/ Truthy(sd) /\ sd \notin files
  \/ Truthy(mc) /\ mc \notin files

\* the base image returned whatever is configured
BuildBaseImage(sd, mc) == sandbox_image
\* build_sandbox_image: the base image plus the configured payloads
build_sandbox_image(sd, mc) ==
  [built |-> TRUE, skills |-> Truthy(sd), mcp |-> Truthy(mc)]

\* the remote paths at which an image holds its payloads
Mounted(img) ==
  (IF img.skills THEN {"/opt/skills"} ELSE {})
  \cup (IF img.mcp THEN {"/opt/mcp-config.json"} ELSE {})

(* ------------------------------ planner -------------------------------- *)
RunTuple(task, k, image, s, m) ==
  [task |-> task, tk |-> k, image |-> image, skills_on |-> s, mcp_on |-> m]

\* the mcp variant always run with skills
McpVariantWithSkills(sd) == TRUE
\* the mcp variant never run with skills
McpVariantWithoutSkills(sd) == FALSE
\* the third variant of A/B mode and the variant of the --mcp-config mode
McpVariantSkills(sd) == Truthy(sd)

\* the branches outside A/B mode tested in the other order: skills first
RunsOfTaskSkillsFirst(task, k, ab, sd, mc, imgs) ==
  IF ab THEN
    << RunTuple(task, k, imgs.baseline, FALSE, FALSE) >>
    \o (IF Truthy(sd) THEN << RunTuple(task, k, imgs.skills, TRUE, FALSE) >>
        ELSE << >>)
    \o (IF Truthy(mc)
        THEN << RunTuple(task, k, imgs.mcp, Truthy(sd), TRUE) >>
        ELSE << >>)
  ELSE IF Truthy(sd) THEN
    << RunTuple(task, k, imgs.skills, TRUE, FALSE) >>
  ELSE IF Truthy(mc) THEN
    << RunTuple(task, k, imgs.mcp, Truthy(sd), TRUE) >>
  ELSE
    << RunTuple(task, k, imgs.baseline, FALSE, FALSE) >>

\* the tools variant of A/B mode appended before the skills variant
RunsOfTaskToolsFirst(task, k, ab, sd, mc, imgs) ==
  IF ab THEN
    << RunTuple(task, k, imgs.baseline, FALSE, FALSE) >>
    \o (IF Truthy(mc)
        THEN << RunTuple(task, k, imgs.mcp, McpVariantSkills(sd), TRUE) >>
        ELSE << >>)
    \o (IF Truthy(sd) THEN << RunTuple(task, k, imgs.skills, TRUE, FALSE) >>
        ELSE << >>)
  ELSE IF Truthy(mc) THEN
    << RunTuple(task, k, imgs.mcp, McpVariantSkills(sd), TRUE) >>
  ELSE IF Truthy(sd) THEN
    << RunTuple(task, k, imgs.skills, TRUE, FALSE) >>
  ELSE
    << RunTuple(task, k, imgs.baseline, FALSE, FALSE) >>

\* the run tuples appended for one task (tk: position of the task in the
\* batch, kept for the properties only; the code's tuple does not hold it)
RunsOfTask(task, k, ab, sd, mc, imgs) ==
  IF ab THEN
    << RunTuple(task, k, imgs.baseline, FALSE, FALSE) >>
    \o (IF Truthy(sd) THEN << RunTuple(task, k, imgs.skills, TRUE, FALSE) >>
        ELSE << >>)
    \o (IF Truthy(mc)
        THEN << RunTuple(task, k, imgs.mcp, McpVariantSkills(sd), TRUE) >>
        ELSE << >>)
  ELSE IF Truthy(mc) THEN
    << RunTuple(task, k, imgs.mcp, McpVariantSkills(sd), TRUE) >>
  ELSE IF Truthy(sd) THEN
    << RunTuple(task, k, imgs.skills, TRUE, FALSE) >>
  ELSE
    << RunTuple(task, k, imgs.baseline, FALSE, FALSE) >>

RECURSIVE BuildRuns(_, _, _, _, _, _)
BuildRuns(ts, k, ab, sd, mc, imgs) ==
  IF k > Len(ts) THEN << >>
  ELSE RunsOfTask(ts[k], k, ab, sd, mc, imgs)
       \o BuildRuns(ts, k + 1, ab, sd, mc, imgs)

(* ------------------------------- state --------------------------------- *)
VARIABLES
  batch_file,     \* "missing", "not_array" or "array": what --batch names
  tasks,          \* the parsed JSON array
  ab_mode,        \* --ab
  skills_dir,     \* --skills-dir, or None
  mcp_config,     \* --mcp-config, or None
  max_parallel,   \* --parallel
  files,          \* the asset paths that exist on disk
  api_url,        \* --api-url, or None
  litellm,        \* get_web_url() of the deployed service: a URL, "", None
                  \* or "raises" when the lookup raises
  now,            \* what datetime.now() gives this invocation, in ticks
  other_now,      \* what it gives another invocation of the script
  pc,             \* position of main / run_batch_async
  images,         \* baseline_image, skills_image, mcp_image
  base_url,       \* the LLM endpoint of the batch, None until resolved
  lookups,        \* calls of discover_litellm_url so far
  run_id,         \* the directory name of this invocation, None until set
  runs,           \* the list of run tuples
  sem,            \* value of the asyncio.Semaphore
  rpc,            \* position of each run_with_semaphore coroutine
  sb,             \* state of each run's sandbox
  local,          \* the local `result` dict of each run in flight
  results,        \* what gather holds for each run
  artifacts,      \* files under /results/<run_id> on the volume
  faults,         \* incidents injected so far
  summary         \* the summary dict once built

vars ==
  << batch_file, tasks, ab_mode, skills_dir, mcp_config, max_parallel, files,
     api_url, litellm, now, other_now, pc, images, base_url, lookups, run_id,
     runs, sem, rpc, sb, local, results, artifacts, faults, summary >>

inputs ==
  << batch_file, tasks, ab_mode, skills_dir, mcp_config, max_parallel, files,
     api_url, litellm, now, other_now >>
endpoint == << base_url, lookups, run_id >>
runState == << sem, rpc, sb, local, results >>

RunIdx == 1..Len(runs)
\* the positions a run list of Spec can have
RunSlots == 1..MaxRuns

\* a slot of the gather result list
NotReturned == [kind |-> "none"]
Returned(r) == [kind |-> "result", value |-> r]
Raised(text) == [kind |-> "exception", text |-> text]

NoSummary == [built |-> FALSE]

SkillsDirValues == {None, SkillsPath}
McpConfigValues == {None, McpPath}

ConfiguredPaths(sd, mc) ==
  (IF Truthy(sd) THEN {sd} ELSE {}) \cup (IF Truthy(mc) THEN {mc} ELSE {})

\* the run tuples a batch of n tasks expands into
RunCount(n, ab, sd, mc) ==
  IF ab
  THEN n * (1 + (IF Truthy(sd) THEN 1 ELSE 0) + (IF Truthy(mc) THEN 1 ELSE 0))
  ELSE n

ApiUrlValues == {None, "", ApiUrl}
LitellmValues == {ServiceUrl, "", None, "raises"}

\* the clock readings of two invocations started at different instants
ClockPairs == { c \in (0..MaxClock) \X (0..MaxClock) : c[1] # c[2] }
\* the readings of the specifications that do not look at the run id
OneClock == { << 0, 1 >> }

InitWith(taskLists, sdValues, mcValues, maxRuns, apiUrls, llmUrls, clocks) ==
  /\ batch_file \in {"missing", "not_array", "array"}
  /\ ab_mode \in BOOLEAN
  /\ skills_dir \in sdValues
  /\ mcp_config \in mcValues
  /\ tasks \in taskLists
  /\ batch_file # "array" => tasks = << >>
  /\ RunCount(Len(tasks), ab_mode, skills_dir, mcp_config) <= maxRuns
  /\ max_parallel \in 1..MaxParallel
  /\ files \in SUBSET ConfiguredPaths(skills_dir, mcp_config)
  /\ api_url \in apiUrls
  /\ litellm \in llmUrls
  /\ \E c \in clocks : now = c[1] /\ other_now = c[2]
  /\ pc = "main"
  /\ images = [baseline |-> sandbox_image, skills |-> NoImage, mcp |-> NoImage]
  /\ base_url = None
  /\ lookups = 0
  /\ run_id = None
  /\ runs = << >>
  /\ sem = 0
  /\ rpc = << >>
  /\ sb = << >>
  /\ local = << >>
  /\ results = << >>
  /\ artifacts = {}
  /\ faults = 0
  /\ summary = NoSummary

\* the batches of Spec: no run step reads the endpoint, so one way of
\* resolving it is enough
Init ==
  InitWith(SeqsUpTo(TaskObjects, MaxTasks), SkillsDirValues, McpConfigValues,
           MaxRuns, {None}, {ServiceUrl}, OneClock)

\* the batches of FairSpec: scheduling reads nothing of a task object, so
\* one kind of task is enough
FairInit ==
  InitWith(SeqsUpTo({ [prompt |-> "p"] }, MaxTasks),
           SkillsDirValues, McpConfigValues, MaxRuns, {None}, {ServiceUrl},
           OneClock)

\* the batches of PlanSpec: longer files, more ids, "" as an argument,
\* every way of resolving the endpoint
PlanInit ==
  InitWith(SeqsUpTo(PlanTaskObjects, MaxPlanTasks), SkillsDirValues \cup {""},
           McpConfigValues \cup {""}, 3 * MaxPlanTasks, ApiUrlValues,
           LitellmValues, OneClock)

\* the batches of GateSpec: plain batches, one run per task
GateInit ==
  /\ InitWith(SeqsUpTo({ [prompt |-> "p"] }, MaxGateRuns), {None}, {None},
              MaxGateRuns, {None}, {ServiceUrl}, OneClock)
  /\ ~ab_mode

\* the batches of RunIdSpec: short files, every pair of clock readings
RunIdInit ==
  InitWith(SeqsUpTo({ [prompt |-> "p"] }, 1), SkillsDirValues,
           McpConfigValues, MaxRuns, {None}, {ServiceUrl}, ClockPairs)

(* ----------------------- main and run_batch_async ---------------------- *)
\* --ab accepted whatever else is configured
AbNeverRejected == FALSE
\* --ab with neither --skills-dir nor --mcp-config
AbWithoutAugmentation == ab_mode /\ ~Truthy(skills_dir) /\ ~Truthy(mcp_config)

\* main: argument checks before run_batch_async is entered
Main ==
  /\ pc = "main"
  /\ pc' = IF AbWithoutAugmentation THEN "exit2" ELSE "load"
  /\ UNCHANGED << inputs, images, endpoint, runs, runState, artifacts, faults,
                  summary >>

\* run_batch_async up to the image builds: the batch file and the mode check
LoadBatch ==
  /\ pc = "load"
  /\ pc' = IF batch_file # "array" \/ AbWithoutAugmentation
           THEN "exit1" ELSE "images"
  /\ UNCHANGED << inputs, images, endpoint, runs, runState, artifacts, faults,
                  summary >>

\* the image builds of run_batch_async
BuildImages ==
  /\ pc = "images"
  /\ IF \/ Truthy(skills_dir) /\ AssetMissing(skills_dir, None, files)
        \/ Truthy(mcp_config) /\ AssetMissing(skills_dir, mcp_config, files)
     THEN /\ pc' = "exit1"
          /\ UNCHANGED images
     ELSE /\ pc' = "resolve"
          /\ images' =
               [baseline |-> sandbox_image,
                skills |-> IF Truthy(skills_dir)
                           THEN build_sandbox_image(skills_dir, None)
                           ELSE NoImage,
                mcp |-> IF Truthy(mcp_config)
                        THEN build_sandbox_image(skills_dir, mcp_config)
                        ELSE NoImage]
  /\ UNCHANGED << inputs, endpoint, runs, runState, artifacts, faults, summary >>

\* whatever the lookup gives is returned, the fallback only when it raises
DiscoverUnchecked(found) == IF found = "raises" THEN LocalUrl ELSE found

\* discover_litellm_url: the web URL of the deployed service, or the
\* fallback when the lookup raises or gives nothing
discover_litellm_url(found) ==
  IF found # "raises" /\ Truthy(found) THEN found ELSE LocalUrl

\* the text of "%Y%m%d_%H%M%S" for consecutive seconds
Stamps ==
  << "20260209_143000", "20260209_143001", "20260209_143002",
     "20260209_143003", "20260209_143004" >>
\* datetime.now().strftime("%Y%m%d_%H%M%S"): the reading cut to its second
strftime(t) == Stamps[t \div TicksPerSecond + 1]
\* f"/results/{run_id}"
results_dir(id) == << "/results", id >>

\* run_id = ...; base_url = api_url or discover_litellm_url()
ResolveUrl ==
  /\ pc = "resolve"
  /\ run_id' = strftime(now)
  /\ IF Truthy(api_url)
     THEN base_url' = api_url /\ UNCHANGED lookups
     ELSE base_url' = discover_litellm_url(litellm) /\ lookups' = lookups + 1
  /\ pc' = "plan"
  /\ UNCHANGED << inputs, images, runs, runState, artifacts, faults, summary >>

\* the run list, the semaphore and the coroutines handed to gather
PlanRuns ==
  /\ pc = "plan"
  /\ runs' = BuildRuns(tasks, 1, ab_mode, skills_dir, mcp_config, images)
  /\ sem' = max_parallel
  /\ rpc' = [i \in 1..Len(runs') |-> "pending"]
  /\ sb' = [i \in 1..Len(runs') |-> "none"]
  /\ local' = [i \in 1..Len(runs') |-> NotReturned]
  /\ results' = [i \in 1..Len(runs') |-> NotReturned]
  /\ pc' = "gather"
  /\ UNCHANGED << inputs, images, endpoint, artifacts, faults, summary >>

(* ------------------ run_with_semaphore / run_single_task_async --------- *)
\* exit statuses of an agent that ends by itself
AgentExitCodes == {0, 1}
\* p.returncode of a process killed with its sandbox at the sandbox timeout
TimeoutReturnCodes == {137}
\* round(elapsed, 2) of a run
ElapsedValues == {1}

\* a gate that admits whatever its value
SlotAlwaysFree == TRUE
\* the semaphore admits a coroutine only while its value is positive
SlotFree == sem > 0
\* a slot that is kept when the block is left
NotReleased(s) == s
\* a slot given back twice
ReleasedTwice(s) == s + 2
\* leaving `async with semaphore`, by return or by exception
Released(s) == s + 1

\* one incident of the infrastructure, while the budget lasts
Incident == faults < MaxFaults /\ faults' = faults + 1

result_suffix(s, m) ==
  IF m /\ s THEN "-skills-mcp"
  ELSE IF s THEN "-skills"
  ELSE IF m THEN "-mcp"
  ELSE "-baseline"

\* a result dict that records no augmentation
RunResultNoCaps(i, code, elapsed) ==
  [id |-> TaskId(runs[i].task, i - 1),
   prompt |-> runs[i].task.prompt,
   model |-> Model,
   skills_enabled |-> FALSE,
   mcp_enabled |-> FALSE,
   output |-> "out",
   exit_code |-> code,
   stderr |-> "",
   elapsed_s |-> elapsed]

\* the result dict of run_single_task_async (i: 1-based position in runs)
RunResult(i, code, elapsed) ==
  [id |-> TaskId(runs[i].task, i - 1),
   prompt |-> runs[i].task.prompt,
   model |-> Model,
   skills_enabled |-> runs[i].skills_on,
   mcp_enabled |-> runs[i].mcp_on,
   output |-> "out",
   exit_code |-> code,
   stderr |-> "",
   elapsed_s |-> elapsed]

ResultFile(r) == << r.id, result_suffix(r.skills_enabled, r.mcp_enabled) >>
SummaryFile == << "summary", "" >>

\* a write that leaves the volume as it was
KeepStore(store, f, content) == store
\* a file of the volume holds the documents written into it, in order
\* open(path, "a").write(content): the document is added to the file
AppendFile(store, f, content) ==
  { e \in store : e.file # f }
  \cup { [file |-> f, content |-> e.content \o << content >>] :
           e \in { x \in store : x.file = f } }
  \cup (IF \E e \in store : e.file = f THEN {}
        ELSE { [file |-> f, content |-> << content >>] })
\* open(path, "w").write(content): the file holds the document alone
WriteFile(store, f, content) ==
  { e \in store : e.file # f } \cup { [file |-> f, content |-> << content >>] }

\* open(path, "w") alone: the file exists and holds nothing yet
TruncateFile(store, f) ==
  { e \in store : e.file # f } \cup { [file |-> f, content |-> << >>] }

\* results in the order the runs end
CompletionSlot(i) ==
  Cardinality({ j \in RunIdx : rpc[j] \in {"done", "raised"} }) + 1
\* gather returns the results in the order of the awaitables it was given
GatherSlot(i) == i

\* one sandbox kept for all the runs
SharedSandbox(i) == 1
\* the sandbox a run works with: the local `sb` of its own coroutine
SandboxOf(i) == i

\* gather starts the coroutines in list order and the semaphore wakes its
\* waiters first come first served
Acquire(i) ==
  /\ pc = "gather"
  /\ i \in RunIdx
  /\ rpc[i] = "pending"
  /\ \A j \in 1..(i - 1) : rpc[j] # "pending"
  /\ SlotFree
  /\ sem' = sem - 1
  /\ rpc' = [rpc EXCEPT ![i] = "create"]
  /\ UNCHANGED << inputs, pc, images, endpoint, runs, sb, local, results, artifacts,
                  faults, summary >>

\* an exception leaves run_single_task_async: `async with` releases the
\* slot and gather keeps the exception as the coroutine's result
Raise(i, text) ==
  /\ rpc' = [rpc EXCEPT ![i] = "raised"]
  /\ results' = [results EXCEPT ![GatherSlot(i)] = Raised(text)]
  /\ local' = [local EXCEPT ![i] = NotReturned]
  /\ sem' = Released(sem)

\* Sandbox.create(image=image or sandbox_image)
ImageUsed(i) ==
  IF runs[i].image.built THEN runs[i].image ELSE sandbox_image

\* the skills argument passed whenever the batch has a skills directory
skills_flag_of_batch(r) ==
  IF Truthy(skills_dir) THEN << "-skills-dir", "/opt/skills" >> ELSE << >>
\* the optional arguments of /opt/goat-eval, as lists of words
skills_flag(r) ==
  IF r.skills_on THEN << "-skills-dir", "/opt/skills" >> ELSE << >>
mcp_flag(r) ==
  IF r.mcp_on THEN << "-mcp-config", "/opt/mcp-config.json" >> ELSE << >>
\* the words of eval_cmd after -prompt and -max-turns
eval_cmd(r) == skills_flag(r) \o mcp_flag(r)

\* App.lookup, the task's fields and Sandbox.create
Create(i) ==
  /\ pc = "gather"
  /\ i \in RunIdx
  /\ rpc[i] = "create"
  /\ IF ~HasKey(runs[i].task, "prompt")
     THEN /\ Raise(i, "KeyError: 'prompt'")
          /\ UNCHANGED sb
     ELSE /\ rpc' = [rpc EXCEPT ![i] = "agent"]
          /\ sb' = [sb EXCEPT ![SandboxOf(i)] = "alive"]
          /\ UNCHANGED << sem, local, results >>
  /\ UNCHANGED << inputs, pc, images, endpoint, runs, artifacts, faults, summary >>

CreateFault(i) ==
  /\ pc = "gather"
  /\ i \in RunIdx
  /\ rpc[i] = "create"
  /\ Incident
  /\ Raise(i, "modal error")
  /\ UNCHANGED << inputs, pc, images, endpoint, runs, sb, artifacts, summary >>

\* sb.exec of the agent, both output streams and p.wait: the agent ends
AgentExit(i) ==
  /\ pc = "gather"
  /\ i \in RunIdx
  /\ rpc[i] = "agent"
  /\ \E code \in AgentExitCodes, elapsed \in ElapsedValues :
       local' = [local EXCEPT ![i] = Returned(RunResult(i, code, elapsed))]
  /\ rpc' = [rpc EXCEPT ![i] = "write"]
  /\ UNCHANGED << inputs, pc, images, endpoint, runs, sem, sb, results, artifacts,
                  faults, summary >>

\* the agent is still running at the sandbox timeout: Modal kills the
\* sandbox; p.wait then returns the killed process's status, or raises
AgentTimeout(i) ==
  /\ pc = "gather"
  /\ i \in RunIdx
  /\ rpc[i] = "agent"
  /\ Incident
  /\ sb' = [sb EXCEPT ![SandboxOf(i)] = "expired"]
  /\ \/ /\ \E code \in TimeoutReturnCodes, elapsed \in ElapsedValues :
             local' = [local EXCEPT ![i] = Returned(RunResult(i, code, elapsed))]
        /\ rpc' = [rpc EXCEPT ![i] = "write"]
        /\ UNCHANGED << sem, results >>
     \/ Raise(i, "modal error")
  /\ UNCHANGED << inputs, pc, images, endpoint, runs, artifacts, summary >>

AgentFault(i) ==
  /\ pc = "gather"
  /\ i \in RunIdx
  /\ rpc[i] = "agent"
  /\ Incident
  /\ Raise(i, "modal error")
  /\ UNCHANGED << inputs, pc, images, endpoint, runs, sb, artifacts, summary >>

\* the second sb.exec writes the result file; its exit status is not read
WriteOk(i) ==
  /\ pc = "gather"
  /\ i \in RunIdx
  /\ rpc[i] = "write"
  /\ sb[SandboxOf(i)] = "alive"
  /\ artifacts' = WriteFile(artifacts, ResultFile(local[i].value), local[i].value)
  /\ rpc' = [rpc EXCEPT ![i] = "terminate"]
  /\ UNCHANGED << inputs, pc, images, endpoint, runs, sem, sb, local, results, faults,
                  summary >>

\* the write command as a reader of the volume sees it: python opens the
\* file with "w" before it reads its input ...
OpenResultFile(i) ==
  /\ pc = "gather"
  /\ i \in RunIdx
  /\ rpc[i] = "write"
  /\ sb[SandboxOf(i)] = "alive"
  /\ artifacts' = TruncateFile(artifacts, ResultFile(local[i].value))
  /\ rpc' = [rpc EXCEPT ![i] = "writing"]
  /\ UNCHANGED << inputs, pc, images, endpoint, runs, sem, sb, local, results,
                  faults, summary >>

\* ... and writes the document once the input has been read to its end
WriteResultFile(i) ==
  /\ pc = "gather"
  /\ i \in RunIdx
  /\ rpc[i] = "writing"
  /\ artifacts' = WriteFile(artifacts, ResultFile(local[i].value), local[i].value)
  /\ rpc' = [rpc EXCEPT ![i] = "terminate"]
  /\ UNCHANGED << inputs, pc, images, endpoint, runs, sem, sb, local, results,
                  faults, summary >>

\* the write command fails inside the sandbox, or the sandbox is gone
WriteLost(i) ==
  /\ pc = "gather"
  /\ i \in RunIdx
  /\ rpc[i] = "write"
  /\ \/ sb[SandboxOf(i)] = "expired" /\ UNCHANGED faults
     \/ sb[SandboxOf(i)] = "alive" /\ Incident
  /\ rpc' = [rpc EXCEPT ![i] = "terminate"]
  /\ UNCHANGED << inputs, pc, images, endpoint, runs, sem, sb, local, results,
                  artifacts, summary >>

WriteFault(i) ==
  /\ pc = "gather"
  /\ i \in RunIdx
  /\ rpc[i] = "write"
  /\ \/ sb[SandboxOf(i)] = "expired" /\ UNCHANGED faults
     \/ sb[SandboxOf(i)] = "alive" /\ Incident
  /\ Raise(i, "modal error")
  /\ UNCHANGED << inputs, pc, images, endpoint, runs, sb, artifacts, summary >>

\* sb.terminate, return result, the slot is released
TerminateOk(i) ==
  /\ pc = "gather"
  /\ i \in RunIdx
  /\ rpc[i] = "terminate"
  /\ sb' = [sb EXCEPT ![SandboxOf(i)] = IF @ = "alive" THEN "terminated" ELSE @]
  /\ results' = [results EXCEPT ![GatherSlot(i)] = local[i]]
  /\ local' = [local EXCEPT ![i] = NotReturned]
  /\ rpc' = [rpc EXCEPT ![i] = "done"]
  /\ sem' = Released(sem)
  /\ UNCHANGED << inputs, pc, images, endpoint, runs, artifacts, faults, summary >>

TerminateFault(i) ==
  /\ pc = "gather"
  /\ i \in RunIdx
  /\ rpc[i] = "terminate"
  /\ Incident
  /\ Raise(i, "modal error")
  /\ UNCHANGED << inputs, pc, images, endpoint, runs, sb, artifacts, summary >>

\* the batch is cancelled (Ctrl-C) while gather is awaited: every coroutine
\* that has not ended gets CancelledError at its await; one that waits for
\* the semaphore never enters run_single_task_async, one in flight leaves it
\* at once, releasing its slot; no handler of the code runs, and gather's
\* awaiter is cancelled with it
Cancel ==
  /\ pc = "gather"
  /\ pc' = "cancelled"
  /\ rpc' = [i \in RunIdx |->
               IF rpc[i] \in {"done", "raised"} THEN rpc[i] ELSE "cancelled"]
  /\ sem' = sem + Cardinality({ i \in RunIdx :
                                  rpc[i] \notin {"pending", "done", "raised"} })
  /\ local' = [i \in RunIdx |-> NotReturned]
  /\ UNCHANGED << inputs, images, endpoint, runs, sb, results, artifacts,
                  faults, summary >>

RunStep(i) ==
  \/ Acquire(i)
  \/ Create(i)
  \/ CreateFault(i)
  \/ AgentExit(i)
  \/ AgentTimeout(i)
  \/ AgentFault(i)
  \/ WriteOk(i)
  \/ WriteLost(i)
  \/ WriteFault(i)
  \/ TerminateOk(i)
  \/ TerminateFault(i)

(* ------------------------ results and the summary ---------------------- *)
\* the exit code given to a run that raised
SyntheticExitCode == -1

\* a synthetic result that drops the error text
SyntheticResultNoText(i, text) ==
  [id |-> TaskId(runs[i].task, i - 1),
   prompt |-> runs[i].task.prompt,
   model |-> Model,
   skills_enabled |-> runs[i].skills_on,
   mcp_enabled |-> runs[i].mcp_on,
   output |-> "",
   exit_code |-> SyntheticExitCode,
   stderr |-> "",
   elapsed_s |-> 0]

\* the dict run_batch_async appends for a run that raised
SyntheticResult(i, text) ==
  [id |-> TaskId(runs[i].task, i - 1),
   prompt |-> runs[i].task.prompt,
   model |-> Model,
   skills_enabled |-> runs[i].skills_on,
   mcp_enabled |-> runs[i].mcp_on,
   output |-> "",
   exit_code |-> SyntheticExitCode,
   stderr |-> text,
   elapsed_s |-> 0]

\* the loop over the gather results needs task["prompt"] of a raised run
HandlerRaises ==
  \E i \in RunIdx :
    results[i].kind = "exception" /\ ~HasKey(runs[i].task, "prompt")

clean_results ==
  [i \in RunIdx |->
     IF results[i].kind = "exception"
     THEN SyntheticResult(i, results[i].text)
     ELSE results[i].value]

Passed(rs) == Cardinality({ i \in 1..Len(rs) : rs[i].exit_code = 0 })
\* failures counted as the positive exit codes only
FailedPositive(rs) == Cardinality({ i \in 1..Len(rs) : rs[i].exit_code > 0 })
Failed(rs) == Cardinality({ i \in 1..Len(rs) : rs[i].exit_code # 0 })

mode_label ==
  IF ab_mode THEN "A/B"
  ELSE IF Truthy(skills_dir) /\ Truthy(mcp_config) THEN "skills+mcp"
  ELSE IF Truthy(skills_dir) THEN "skills"
  ELSE IF Truthy(mcp_config) THEN "mcp"
  ELSE "baseline"

\* the variants counted without the tools axis
variants_without_mcp ==
  1 + (IF Truthy(skills_dir) THEN 1 ELSE 0)

variants_per_task ==
  1 + (IF Truthy(skills_dir) THEN 1 ELSE 0)
    + (IF Truthy(mcp_config) THEN 1 ELSE 0)

\* the skills axis taken by every member that has skills enabled
AxisEntrySkillsFirst(r) ==
  IF ~r.skills_enabled /\ ~r.mcp_enabled
  THEN [baseline_pass |-> r.exit_code = 0, baseline_time_s |-> r.elapsed_s]
  ELSE IF r.skills_enabled
  THEN [skills_pass |-> r.exit_code = 0, skills_time_s |-> r.elapsed_s]
  ELSE [mcp_pass |-> r.exit_code = 0, mcp_time_s |-> r.elapsed_s]

\* the keys one member of a group sets in its comparison
AxisEntry(r) ==
  IF ~r.skills_enabled /\ ~r.mcp_enabled
  THEN [baseline_pass |-> r.exit_code = 0, baseline_time_s |-> r.elapsed_s]
  ELSE IF r.skills_enabled /\ ~r.mcp_enabled
  THEN [skills_pass |-> r.exit_code = 0, skills_time_s |-> r.elapsed_s]
  ELSE [mcp_pass |-> r.exit_code = 0, mcp_time_s |-> r.elapsed_s]

\* the comparison dict after the first n members of the group: a later
\* member overwrites the keys of an earlier one
RECURSIVE Comparison(_, _)
Comparison(group, n) ==
  IF n = 0 THEN [id |-> group[1].id]
  ELSE AxisEntry(group[n]) @@ Comparison(group, n - 1)

\* one comparison per full group of V consecutive results
Comparisons(rs, V) ==
  [g \in 1..(Len(rs) \div V) |->
     Comparison(SubSeq(rs, (g - 1) * V + 1, g * V), V)]

\* the comparisons that have the key, whatever its value
CountWithKey(cs, key) ==
  Cardinality({ g \in 1..Len(cs) : key \in DOMAIN cs[g] })
\* sum(1 for c in comparisons if c.get(key))
PassCount(cs, key) ==
  Cardinality({ g \in 1..Len(cs) : key \in DOMAIN cs[g] /\ cs[g][key] })

\* a pass rate written for every axis
PassRatesAllAxes(cs) ==
  [baseline_pass_rate |-> << PassCount(cs, "baseline_pass"), Len(cs) >>,
   skills_pass_rate |-> << PassCount(cs, "skills_pass"), Len(cs) >>,
   mcp_pass_rate |-> << PassCount(cs, "mcp_pass"), Len(cs) >>]

\* the pass-rate strings f"{passes}/{len(comparisons)}", kept as pairs
PassRates(cs) ==
  [baseline_pass_rate |-> << PassCount(cs, "baseline_pass"), Len(cs) >>]
  @@ (IF Truthy(skills_dir)
      THEN [skills_pass_rate |-> << PassCount(cs, "skills_pass"), Len(cs) >>]
      ELSE << >>)
  @@ (IF Truthy(mcp_config)
      THEN [mcp_pass_rate |-> << PassCount(cs, "mcp_pass"), Len(cs) >>]
      ELSE << >>)

BuildSummary(rs) ==
  LET base ==
        [built |-> TRUE,
         model |-> Model,
         mode |-> mode_label,
         skills_dir |-> skills_dir,
         mcp_config |-> mcp_config,
         total_tasks |-> Len(tasks),
         total_runs |-> Len(runs),
         passed |-> Passed(rs),
         failed |-> Failed(rs),
         results |-> rs]
      cs == Comparisons(rs, variants_per_task)
  IN IF ab_mode THEN base @@ [comparisons |-> cs] @@ PassRates(cs) ELSE base

\* gather has returned: the exception loop, the summary dict and the
\* comparison section, with no suspension in between
Summarise ==
  /\ pc = "gather"
  /\ \A i \in RunIdx : rpc[i] \in {"done", "raised"}
  /\ IF HandlerRaises
     THEN /\ pc' = "crashed"
          /\ UNCHANGED summary
     ELSE /\ pc' = "write_summary"
          /\ summary' = BuildSummary(clean_results)
  /\ UNCHANGED << inputs, images, endpoint, runs, runState, artifacts, faults >>

\* the temporary sandbox writes summary.json
WriteSummaryOk ==
  /\ pc = "write_summary"
  /\ artifacts' = WriteFile(artifacts, SummaryFile, summary)
  /\ pc' = "done"
  /\ UNCHANGED << inputs, images, endpoint, runs, runState, faults, summary >>

\* the summary write as a reader of the volume sees it
OpenSummaryFile ==
  /\ pc = "write_summary"
  /\ artifacts' = TruncateFile(artifacts, SummaryFile)
  /\ pc' = "writing_summary"
  /\ UNCHANGED << inputs, images, endpoint, runs, runState, faults, summary >>

WriteSummaryFile ==
  /\ pc = "writing_summary"
  /\ artifacts' = WriteFile(artifacts, SummaryFile, summary)
  /\ pc' = "done"
  /\ UNCHANGED << inputs, images, endpoint, runs, runState, faults, summary >>

\* the write command of the summary fails inside the temporary sandbox: its
\* exit status is not read
WriteSummaryLost ==
  /\ pc = "write_summary"
  /\ Incident
  /\ pc' = "done"
  /\ UNCHANGED << inputs, images, endpoint, runs, runState, artifacts, summary >>

WriteSummaryFault ==
  /\ pc = "write_summary"
  /\ Incident
  /\ pc' = "crashed"
  /\ UNCHANGED << inputs, images, endpoint, runs, runState, artifacts, summary >>

(* --------------------------- modal_results.py -------------------------- *)
\* MODAL_ENVIRONMENT of modal_sandbox.py and of modal_results.py
WriterEnvironment == "goat"
ReaderEnvironment == "agent-dev"

\* the files under /<run_id> of the goat-results volume of an environment:
\* the batch writes the volume of its own environment and no other
VolumeOf(env) == IF env = WriterEnvironment THEN artifacts ELSE {}

\* get_volume of modal_results.py
get_volume == VolumeOf(ReaderEnvironment)

\* view_run: the summary if summary.json can be read and parsed, otherwise
\* every .json file of the run directory; a directory that does not exist
\* or a file that does not parse ends the reader with status 1
view_run ==
  LET read == { e \in get_volume : e.file = SummaryFile /\ e.content # << >> }
  IN IF read # {}
     THEN [kind |-> "summary", docs |-> { e.content[Len(e.content)] : e \in read }]
     ELSE IF get_volume = {} \/ \E e \in get_volume : e.content = << >>
     THEN [kind |-> "exit1"]
     ELSE [kind |-> "files",
           docs |-> { << e.file, e.content[Len(e.content)] >> : e \in get_volume }]

(* --------------------------- specifications ---------------------------- *)
PlanNext == Main \/ LoadBatch \/ BuildImages \/ ResolveUrl \/ PlanRuns

Next ==
  \/ PlanNext
  \/ \E i \in RunSlots : Acquire(i)
  \/ \E i \in RunSlots : Create(i)
  \/ \E i \in RunSlots : CreateFault(i)
  \/ \E i \in RunSlots : AgentExit(i)
  \/ \E i \in RunSlots : AgentTimeout(i)
  \/ \E i \in RunSlots : AgentFault(i)
  \/ \E i \in RunSlots : WriteOk(i)
  \/ \E i \in RunSlots : WriteLost(i)
  \/ \E i \in RunSlots : WriteFault(i)
  \/ \E i \in RunSlots : TerminateOk(i)
  \/ \E i \in RunSlots : TerminateFault(i)
  \/ Summarise
  \/ WriteSummaryOk
  \/ WriteSummaryLost
  \/ WriteSummaryFault

\* the batch as a reader of the volume sees it: every write in its two steps
ReaderNext ==
  \/ PlanNext
  \/ \E i \in RunSlots : Acquire(i)
  \/ \E i \in RunSlots : Create(i)
  \/ \E i \in RunSlots : CreateFault(i)
  \/ \E i \in RunSlots : AgentExit(i)
  \/ \E i \in RunSlots : AgentTimeout(i)
  \/ \E i \in RunSlots : AgentFault(i)
  \/ \E i \in RunSlots : OpenResultFile(i)
  \/ \E i \in RunSlots : WriteResultFile(i)
  \/ \E i \in RunSlots : WriteLost(i)
  \/ \E i \in RunSlots : WriteFault(i)
  \/ \E i \in RunSlots : TerminateOk(i)
  \/ \E i \in RunSlots : TerminateFault(i)
  \/ Summarise
  \/ OpenSummaryFile
  \/ WriteSummaryFile
  \/ WriteSummaryLost
  \/ WriteSummaryFault

Spec == Init /\ [][Next]_vars

\* the planner alone, on more batches
PlanSpec == PlanInit /\ [][PlanNext]_vars

\* the planner alone, on every pair of clock readings
RunIdSpec == RunIdInit /\ [][PlanNext]_vars

\* every run step that is possible is eventually taken by the event loop:
\* a Modal call returns or raises, and the sandbox timeout ends the agent
FairSpec ==
  FairInit /\ [][Next]_vars /\ WF_vars(\E i \in RunSlots : RunStep(i))

\* the same for plain batches, and run_batch_async goes on once gather has
\* returned
GateSpec ==
  GateInit /\ [][Next]_vars
  /\ WF_vars((\E i \in RunSlots : RunStep(i)) \/ Summarise)

\* the batch with a cancellation at any moment of the dispatch
CancelNext == Next \/ Cancel
CancelSpec == FairInit /\ [][CancelNext]_vars

\* the volume while the batch writes it
ReaderSpec == FairInit /\ [][ReaderNext]_vars

(* ------------------------------ properties ----------------------------- *)
Executing(i) == rpc[i] \in {"create", "agent", "write", "terminate"}
Finished(i) == rpc[i] \in {"done", "raised"}
Planned == pc = "gather"
AllTasksHavePrompt == \A k \in 1..Len(tasks) : HasKey(tasks[k], "prompt")
CapabilitySet(r) == [skills |-> r.skills_on, tools |-> r.mcp_on]
RunsOf(k) == { i \in RunIdx : runs[i].tk = k }

\* C1: at most max_parallel runs hold an admission slot (are inside
\* run_single_task_async) in any reachable state
C1_AdmissionBound ==
  Cardinality({ i \in RunIdx : Executing(i) }) <= max_parallel

\* two runs execute at once under limit 2 while a third waits for a slot
C1_Witness ==
  /\ max_parallel = 2
  /\ Cardinality({ i \in RunIdx : Executing(i) }) = 2
  /\ \E i \in RunIdx : rpc[i] = "pending"

\* C2: for a batch of tasks that carry a prompt, the exception loop never
\* raises, and the result list has one entry per run request: the returned
\* dict of a run that returned, and for a run that raised the synthetic dict
\* (exit code -1, the error text as stderr, empty output, elapsed 0), which
\* is counted among the failed
C2_OneResultPerRequest ==
  AllTasksHavePrompt =>
    /\ ~(pc = "crashed" /\ ~summary.built)
    /\ summary.built =>
         /\ Len(summary.results) = Len(runs)
         /\ \A i \in RunIdx :
              IF results[i].kind = "exception"
              THEN /\ summary.results[i].exit_code = -1
                   /\ summary.results[i].stderr = results[i].text
                   /\ summary.results[i].output = ""
                   /\ summary.results[i].elapsed_s = 0
                   /\ summary.results[i].id = TaskId(runs[i].task, i - 1)
              ELSE /\ results[i].kind = "result"
                   /\ summary.results[i] = results[i].value
         /\ summary.failed >=
              Cardinality({ i \in RunIdx : results[i].kind = "exception" })

\* a summary built from one run that raised and one that returned
C2_Witness ==
  /\ summary.built
  /\ \E i, j \in RunIdx :
       results[i].kind = "exception" /\ results[j].kind = "result"

\* C3: a run that raises changes nothing of any other run, and once a run
\* has raised every run of the batch still reaches its own end
C3_SiblingsRunOn ==
  /\ [][\A i \in RunIdx :
          (rpc[i] # "raised" /\ rpc'[i] = "raised") =>
            \A j \in RunIdx \ {i} :
              rpc'[j] = rpc[j] /\ results'[j] = results[j] /\ sb'[j] = sb[j]]_vars
  /\ (\E i \in RunIdx : rpc[i] = "raised") ~> (\A j \in RunIdx : Finished(j))

\* under limit 1 the first run raised and the second run, admitted after
\* it, returned its own result
C3_Witness ==
  /\ max_parallel = 1
  /\ Len(runs) >= 2
  /\ rpc[1] = "raised"
  /\ rpc[2] = "done"
  /\ results[2].kind = "result"

\* C4: when a run has ended, the sandbox created for it is not left running
C4_SandboxTornDown ==
  \A i \in RunIdx : Finished(i) => sb[i] # "alive"

\* C5: the result of a run whose agent was still running at the timeout
\* never carries an exit code of the process (0, 1 or the status of the
\* killed process)
C5_TimeoutSentinel ==
  summary.built =>
    \A i \in RunIdx :
      sb[i] = "expired" =>
        summary.results[i].exit_code \notin AgentExitCodes \cup TimeoutReturnCodes

\* C6: passed + failed = total_runs in every summary
C6_PassedPlusFailed ==
  summary.built => summary.passed + summary.failed = summary.total_runs

\* a summary with a passed run, a failed run and a synthetic result
C6_Witness ==
  /\ summary.built
  /\ summary.passed > 0
  /\ \E i, j \in RunIdx :
       /\ results[i].kind = "exception"
       /\ results[j].kind = "result" /\ results[j].value.exit_code = 1

GivenIds == { k \in 1..Len(tasks) : HasKey(tasks[k], "id") }
GivenIdsUnique == \A k, l \in GivenIds : tasks[k].id = tasks[l].id => k = l

\* C7: in a batch whose given ids are unique, the results of the variants of
\* one task carry one task id, and exactly variants-per-task results of the
\* summary carry it
C7_VariantsShareTaskId ==
  (summary.built /\ GivenIdsUnique) =>
    \A k \in 1..Len(tasks) :
      \A i \in RunsOf(k) :
        /\ \A j \in RunsOf(k) : summary.results[i].id = summary.results[j].id
        /\ Cardinality({ j \in RunIdx :
                           summary.results[j].id = summary.results[i].id })
             = (IF ab_mode THEN variants_per_task ELSE 1)

\* the capability sets the A/B ladder holds for the configured axes
Ladder ==
  { [skills |-> FALSE, tools |-> FALSE] }
  \cup (IF Truthy(skills_dir) THEN { [skills |-> TRUE, tools |-> FALSE] } ELSE {})
  \cup (IF Truthy(mcp_config)
        THEN { [skills |-> Truthy(skills_dir), tools |-> TRUE] } ELSE {})

\* C8: in A/B mode the run tuples of every task are the baseline, the skills
\* variant iff skills are configured, the variant {skills configured, tools}
\* iff tools are configured, each once and nothing else
C8_AbVariants ==
  (Planned /\ ab_mode) =>
    \A k \in 1..Len(tasks) :
      /\ { CapabilitySet(runs[i]) : i \in RunsOf(k) } = Ladder
      /\ Cardinality(RunsOf(k)) = Cardinality(Ladder)

\* an A/B plan of two tasks with tools configured and skills not
C8_Witness ==
  /\ Planned /\ ab_mode
  /\ Len(tasks) = 2
  /\ ~Truthy(skills_dir) /\ Truthy(mcp_config)
  /\ Len(runs) = 4

ToolsOnly(r) == ~r.skills_on /\ r.mcp_on

C10_SingleVariant ==
  (Planned /\ ~ab_mode) =>
    /\ Len(runs) = Len(tasks)
    /\ \A k \in 1..Len(tasks) :
         /\ runs[k].tk = k
         /\ runs[k].task = tasks[k]
         /\ runs[k].skills_on = Truthy(skills_dir)
         /\ runs[k].mcp_on = Truthy(mcp_config)

\* a plan of two different tasks with both augmentations outside A/B mode
C10_Witness ==
  /\ Planned /\ ~ab_mode
  /\ Truthy(skills_dir) /\ Truthy(mcp_config)
  /\ Len(tasks) = 2 /\ tasks[1] # tasks[2]
  /\ Len(runs) = 2

\* the number of run tuples of one task
GroupSize == IF ab_mode THEN variants_per_task ELSE 1

\* the capability sets of one task of an A/B plan, in ladder order
LadderOrder ==
  << [skills |-> FALSE, tools |-> FALSE] >>
  \o (IF Truthy(skills_dir) THEN << [skills |-> TRUE, tools |-> FALSE] >>
      ELSE << >>)
  \o (IF Truthy(mcp_config)
      THEN << [skills |-> Truthy(skills_dir), tools |-> TRUE] >> ELSE << >>)

\* C11: the plan holds V run tuples per task; those of the k-th task are at
\* the consecutive positions (k-1)*V+1 .. k*V (1-based), tasks in input
\* order, and in A/B mode in the order baseline, +skills, +tools
C11_PlanOrder ==
  Planned =>
    /\ Len(runs) = Len(tasks) * GroupSize
    /\ \A k \in 1..Len(tasks) : \A v \in 1..GroupSize :
         /\ runs[(k - 1) * GroupSize + v].tk = k
         /\ runs[(k - 1) * GroupSize + v].task = tasks[k]
         /\ ab_mode => CapabilitySet(runs[(k - 1) * GroupSize + v]) = LadderOrder[v]

\* the A/B plan of two different tasks with skills only: four run tuples
C11_Witness ==
  /\ Planned /\ ab_mode
  /\ Truthy(skills_dir) /\ ~Truthy(mcp_config)
  /\ Len(tasks) = 2 /\ tasks[1] # tasks[2]
  /\ Len(runs) = 4
  /\ runs[2].skills_on /\ ~runs[3].skills_on

NothingDispatched ==
  /\ runs = << >>
  /\ rpc = << >> /\ sb = << >> /\ results = << >>
  /\ artifacts = {}
  /\ ~summary.built

\* C12: a batch in A/B mode with neither skills nor tools never gets past
\* the argument check: it can only end with exit status 2, no variant image
\* is built, the endpoint is not looked up, and no run, sandbox or artifact
\* exists
C12_AbNeedsAugmentation ==
  (ab_mode /\ ~Truthy(skills_dir) /\ ~Truthy(mcp_config)) =>
    /\ pc \in {"main", "exit2"}
    /\ images = [baseline |-> sandbox_image, skills |-> NoImage, mcp |-> NoImage]
    /\ base_url = None /\ lookups = 0
    /\ NothingDispatched

\* --ab alone with a readable batch of two tasks has ended with status 2
C12_Witness ==
  /\ ab_mode /\ ~Truthy(skills_dir) /\ ~Truthy(mcp_config)
  /\ batch_file = "array" /\ Len(tasks) = 2
  /\ pc = "exit2"

\* some configured asset path does not exist
ConfiguredAssetMissing ==
  \E path \in ConfiguredPaths(skills_dir, mcp_config) : path \notin files

\* C13: with a configured skills directory or tool-config file that does not
\* exist the batch never gets past the image builds: it ends with a non-zero
\* exit status there or earlier, and no run, sandbox or artifact exists
C13_MissingAssetFailsFast ==
  ConfiguredAssetMissing =>
    /\ pc \in {"main", "load", "images", "exit1", "exit2"}
    /\ NothingDispatched

\* an A/B batch with both augmentations configured, whose tool-config file
\* alone is missing, has ended with status 1 at the image builds
C13_Witness ==
  /\ ab_mode /\ Truthy(skills_dir) /\ Truthy(mcp_config)
  /\ skills_dir \in files /\ mcp_config \notin files
  /\ batch_file = "array" /\ Len(tasks) > 0
  /\ pc = "exit1"

\* the dict r is a result of the run tuple at position i
ResultOfRequest(r, i) ==
  /\ r.id = TaskId(runs[i].task, i - 1)
  /\ r.skills_enabled = runs[i].skills_on
  /\ r.mcp_enabled = runs[i].mcp_on
  /\ r.prompt = runs[i].task.prompt

\* C14: whatever order the runs end in, position i of the gather list holds
\* what run i returned or raised, and position i of the summary's results is
\* the result of run tuple i, real or synthetic
C14_ResultsInRequestOrder ==
  /\ \A i \in RunIdx :
       /\ results[i].kind = "result" =>
            rpc[i] = "done" /\ ResultOfRequest(results[i].value, i)
       /\ results[i].kind = "exception" => rpc[i] = "raised"
       /\ results[i].kind = "none" => ~Finished(i)
  /\ summary.built =>
       /\ Len(summary.results) = Len(runs)
       /\ \A i \in RunIdx :
            /\ ResultOfRequest(summary.results[i], i)
            /\ results[i].kind = "result" => summary.results[i] = results[i].value
            /\ results[i].kind = "exception" => summary.results[i].exit_code = -1

\* the second run has returned while the first, admitted before it, is still
\* running, and the two results cannot be taken for one another
C14_Witness ==
  /\ Len(runs) >= 2
  /\ rpc[1] = "agent" /\ results[1].kind = "none"
  /\ rpc[2] = "done" /\ results[2].kind = "result"
  /\ TaskId(runs[1].task, 0) # TaskId(runs[2].task, 1)

\* the positions of the g-th group of V consecutive results
Group(g) == ((g - 1) * GroupSize + 1)..(g * GroupSize)
\* the axis a result is assigned to: the keys it sets in its comparison
Axis(r) == DOMAIN AxisEntry(r)
ResultCaps(r) == [skills |-> r.skills_enabled, tools |-> r.mcp_enabled]

\* C15: the summary of an A/B batch holds one comparison per task, and two
\* members of one group with different capability sets are never assigned
\* to the same axis
C15_OneComparisonPerTask ==
  (summary.built /\ ab_mode) =>
    /\ Len(summary.comparisons) = summary.total_tasks
    /\ \A g \in 1..Len(summary.comparisons) : \A i, j \in Group(g) :
         ResultCaps(summary.results[i]) # ResultCaps(summary.results[j]) =>
           Axis(summary.results[i]) # Axis(summary.results[j])

\* the summary of a three-way A/B batch: baseline, skills and skills+tools
C15_Witness ==
  /\ summary.built /\ ab_mode
  /\ Truthy(skills_dir) /\ Truthy(mcp_config)
  /\ Len(summary.comparisons) = 1
  /\ Len(summary.results) = 3

\* C16: a comparison is never made from a group of results that do not
\* share one task id
C16_NoMixedGroup ==
  (summary.built /\ ab_mode) =>
    \A g \in 1..Len(summary.comparisons) : \A i, j \in Group(g) :
      summary.results[i].id = summary.results[j].id

AxisKeys ==
  {"baseline_pass", "baseline_time_s"}
  \cup (IF Truthy(skills_dir) THEN {"skills_pass", "skills_time_s"} ELSE {})
  \cup (IF Truthy(mcp_config) THEN {"mcp_pass", "mcp_time_s"} ELSE {})
RateKeys ==
  {"baseline_pass_rate"}
  \cup (IF Truthy(skills_dir) THEN {"skills_pass_rate"} ELSE {})
  \cup (IF Truthy(mcp_config) THEN {"mcp_pass_rate"} ELSE {})

\* C17: in the summary of an A/B batch every comparison holds the id, the
\* baseline pass/time entries, the skills entries iff skills are configured
\* and the tools entries iff tools are configured; the summary holds the
\* pass rate of the baseline and of exactly the configured axes
C17_AxesAsConfigured ==
  (summary.built /\ ab_mode) =>
    /\ \A g \in 1..Len(summary.comparisons) :
         DOMAIN summary.comparisons[g] = {"id"} \cup AxisKeys
    /\ DOMAIN summary
         \cap {"baseline_pass_rate", "skills_pass_rate", "mcp_pass_rate"}
       = RateKeys

\* the summary of an A/B batch of two tasks with tools only
C17_Witness ==
  /\ summary.built /\ ab_mode
  /\ ~Truthy(skills_dir) /\ Truthy(mcp_config)
  /\ Len(summary.comparisons) = 2
  /\ "mcp_pass" \in DOMAIN summary.comparisons[1]

\* C18: the skills and tools flags of every result, returned by the run or
\* made for a run that raised, are those of the run tuple it comes from
C18_CapabilitySetKept ==
  /\ \A i \in RunIdx :
       /\ local[i].kind = "result" =>
            ResultCaps(local[i].value) = CapabilitySet(runs[i])
       /\ results[i].kind = "result" =>
            ResultCaps(results[i].value) = CapabilitySet(runs[i])
  /\ summary.built =>
       \A i \in RunIdx : ResultCaps(summary.results[i]) = CapabilitySet(runs[i])

\* a summary with a returned result of a skills+tools run and a synthetic
\* result of a skills run
C18_Witness ==
  /\ summary.built
  /\ \E i, j \in RunIdx :
       /\ results[i].kind = "result"
       /\ runs[i].skills_on /\ runs[i].mcp_on
       /\ results[j].kind = "exception"
       /\ runs[j].skills_on /\ ~runs[j].mcp_on

\* the document a file holds last
Document(e) == e.content[Len(e.content)]
\* run i is at its result write with a sandbox that can do it
Writing(i) == rpc[i] = "write" /\ sb[i] = "alive"

\* C19: writing the document a file of the volume already holds into that
\* file again leaves the volume as it is, and a run that writes a result
\* the volume already holds under the same name changes nothing
C19_RewriteIsIdempotent ==
  /\ [](\A e \in artifacts :
          WriteFile(artifacts, e.file, Document(e)) = artifacts)
  /\ [][\A i \in RunIdx :
          ( /\ Writing(i)
            /\ rpc'[i] = "terminate"
            /\ \E e \in artifacts :
                 /\ e.file = ResultFile(local[i].value)
                 /\ Document(e) = local[i].value )
          => artifacts' = artifacts]_vars

\* two runs of one batch have written the same result under the same name
C19_Witness ==
  /\ faults = 0
  /\ Len(runs) >= 2
  /\ rpc[1] = "done" /\ rpc[2] = "terminate"
  /\ results[1].kind = "result"
  /\ local[2] = results[1]
  /\ \E e \in artifacts :
       e.file = ResultFile(local[2].value) /\ Document(e) = local[2].value

\* the name of the result file of the run tuple at position i
ArtifactKey(i) ==
  << TaskId(runs[i].task, i - 1), result_suffix(runs[i].skills_on, runs[i].mcp_on) >>

\* C20: in a plan whose given ids are unique, two run tuples never have the
\* same result file name
C20_DistinctArtifactKeys ==
  (Planned /\ GivenIdsUnique) =>
    \A i, j \in RunIdx : ArtifactKey(i) = ArtifactKey(j) => i = j

\* C21: no file of the volume is ever empty: a reader finds no file of a
\* name or the whole document
C21_NoEmptyFile ==
  \A e \in artifacts : e.content # << >>

\* the document of a run that returned is in the volume under its name
Stored(r) ==
  \E e \in artifacts : e.file = ResultFile(r) /\ e.content = << r >>
SummaryStored ==
  \E e \in artifacts : e.file = SummaryFile /\ e.content = << summary >>

\* C22: a batch that ends with exit status 0 has stored the result of every
\* run that returned, and its summary
C22_NoSilentLoss ==
  pc = "done" =>
    /\ SummaryStored
    /\ \A i \in RunIdx : results[i].kind = "result" => Stored(results[i].value)

SummaryEntries(store) == { e \in store : e.file = SummaryFile }

\* C23: the summary is built only when every run has ended and is not
\* changed afterwards; the summary file is written only then, at most once,
\* and holds that summary; a batch that ends with status 0 without an
\* incident has written it
C23_SummaryOnceAtEnd ==
  /\ [](summary.built => \A i \in RunIdx : Finished(i))
  /\ [](Cardinality(SummaryEntries(artifacts)) <= 1)
  /\ [][summary.built => summary' = summary]_vars
  /\ [][SummaryEntries(artifacts') # SummaryEntries(artifacts) =>
          /\ SummaryEntries(artifacts) = {}
          /\ summary.built
          /\ \A i \in RunIdx : Finished(i)
          /\ SummaryEntries(artifacts')
               = { [file |-> SummaryFile, content |-> << summary >>] }]_vars
  /\ []((pc = "done" /\ faults = 0) => SummaryStored)

\* a batch of four runs under limit 1 has ended and stored its summary
C23_Witness ==
  /\ pc = "done"
  /\ SummaryStored
  /\ Len(runs) = 4 /\ max_parallel = 1
  /\ \A i \in RunIdx : Finished(i)

\* C24: every result of a built summary, returned or synthetic, is in the
\* volume under its own name
C24_ResultsStoredBeforeSummary ==
  summary.built => \A i \in RunIdx : Stored(summary.results[i])

\* the endpoint the batch is to use
ExpectedUrl ==
  IF api_url = ApiUrl THEN ApiUrl
  ELSE IF litellm = ServiceUrl THEN ServiceUrl
  ELSE LocalUrl

\* C25: the endpoint is resolved in one step before the run list is built
\* and never changes afterwards; it is the --api-url value when one is
\* given (a non-empty one), with no lookup made, otherwise the URL of the
\* deployed service after one lookup, otherwise, when the lookup raises or
\* gives no URL, http://localhost:4000; resolving it never ends the batch
C25_EndpointResolvedOnce ==
  /\ [](pc \in {"plan", "gather"} =>
          /\ base_url = ExpectedUrl
          /\ lookups = (IF api_url = ApiUrl THEN 0 ELSE 1))
  /\ [](pc \notin {"plan", "gather"} => base_url = None /\ lookups = 0)
  /\ [][base_url' # base_url => pc = "resolve" /\ base_url = None]_vars
  /\ [][pc = "resolve" => pc' \in {"resolve", "plan"}]_vars

\* the lookup raised and the batch was planned with the local default
C25_Witness ==
  /\ Planned
  /\ api_url = "" /\ litellm = "raises"
  /\ base_url = LocalUrl
  /\ Len(runs) > 0

\* C26: the variant images are built in one step before the run list
\* exists and never change afterwards; the image a run's sandbox is created
\* from has the skills payload iff the run has skills enabled and the tool
\* config iff it has tools enabled, it is one of the batch's images, and two
\* runs with the same capability set use the same image
C26_TemplateOfCapabilitySet ==
  /\ [](Planned =>
          \A i \in RunIdx :
            /\ ImageUsed(i).built
            /\ ImageUsed(i).skills = runs[i].skills_on
            /\ ImageUsed(i).mcp = runs[i].mcp_on
            /\ ImageUsed(i) \in {images.baseline, images.skills, images.mcp}
            /\ \A j \in RunIdx :
                 CapabilitySet(runs[i]) = CapabilitySet(runs[j]) =>
                   ImageUsed(i) = ImageUsed(j))
  /\ [][images' # images => pc = "images" /\ runs = << >>]_vars

\* the A/B plan of two tasks with both augmentations: three images, each
\* used by two runs
C26_Witness ==
  /\ Planned /\ ab_mode
  /\ Truthy(skills_dir) /\ Truthy(mcp_config)
  /\ Len(runs) = 6
  /\ ImageUsed(2) = ImageUsed(5) /\ ImageUsed(2) # ImageUsed(3)
  /\ ImageUsed(3) = images.mcp

\* C27: a sandbox comes into being only by the create step of its own run,
\* once; only the steps of that run change it; a run that has passed its
\* create step has a sandbox of its own and a run that has not has none
C27_FreshSandboxPerRun ==
  /\ [][\A i \in RunIdx :
          /\ (sb'[i] # sb[i] /\ sb'[i] = "alive") =>
               (sb[i] = "none" /\ rpc[i] = "create" /\ rpc'[i] = "agent")
          /\ sb'[i] # sb[i] => rpc'[i] # rpc[i]]_vars
  /\ [](\A i \in RunIdx :
          /\ rpc[i] \in {"agent", "write", "terminate", "done"} => sb[i] # "none"
          /\ rpc[i] \in {"pending", "create"} => sb[i] = "none")

\* two runs work at once, each with its own running sandbox
C27_Witness ==
  /\ Len(runs) >= 2
  /\ rpc[1] = "agent" /\ sb[1] = "alive"
  /\ rpc[2] = "write" /\ sb[2] = "alive"

\* the number of run tuples a task is to be expanded into
ExpectedVariants ==
  IF ab_mode
  THEN 1 + (IF skills_dir = SkillsPath THEN 1 ELSE 0)
         + (IF mcp_config = McpPath THEN 1 ELSE 0)
  ELSE 1

\* the capability sets of the run tuples of the k-th task, in plan order
CapsOfTask(k) ==
  LET rs == SelectSeq(runs, LAMBDA r : r.tk = k)
  IN [n \in 1..Len(rs) |-> CapabilitySet(rs[n])]

\* C28: in every summary total_runs = total_tasks * V with V = 1 outside
\* A/B mode and 1 + [skills] + [tools] in A/B mode; every task has the same
\* sequence of capability sets, of length V; and the stride of the
\* comparison loop is that V
C28_VariantsBatchGlobal ==
  summary.built =>
    /\ summary.total_runs = summary.total_tasks * ExpectedVariants
    /\ \A k \in 1..Len(tasks) :
         /\ Len(CapsOfTask(k)) = ExpectedVariants
         /\ CapsOfTask(k) = CapsOfTask(1)
    /\ ab_mode =>
         /\ variants_per_task = ExpectedVariants
         /\ Len(summary.comparisons) * variants_per_task = summary.total_runs

\* the summary of an A/B batch of two tasks with skills only
C28_Witness ==
  /\ summary.built /\ ab_mode
  /\ Truthy(skills_dir) /\ ~Truthy(mcp_config)
  /\ summary.total_tasks = 2 /\ summary.total_runs = 4
  /\ Len(summary.comparisons) = 2

\* C29: after a cancellation no sandbox of the batch is left running
C29_CancelTearsDown ==
  pc = "cancelled" => \A i \in RunIdx : sb[i] # "alive"

\* C30: the reader returns the summary the batch has stored, and when the
\* batch has stored files but no summary, exactly those files
C30_ReaderReturnsBatch ==
  /\ SummaryStored => view_run = [kind |-> "summary", docs |-> { summary }]
  /\ (artifacts # {} /\ SummaryEntries(artifacts) = {}) =>
       view_run = [kind |-> "files",
                   docs |-> { << e.file, Document(e) >> : e \in artifacts }]

\* the slots taken from the semaphore
HeldSlots == Cardinality({ i \in RunIdx : Executing(i) })

\* C31: while gather runs, the semaphore's value plus the slots held is the
\* limit; a run leaves the wait only by taking a slot and gives one slot
\* back when it ends, by return or by exception; and every planned batch
\* comes to the point where all runs have ended, no slot is held and the
\* summary is built and about to be written
C31_SlotsReturnAndBatchEnds ==
  /\ [](pc = "gather" => sem + HeldSlots = max_parallel)
  /\ [][\A i \in RunIdx :
          /\ (rpc[i] = "pending" /\ rpc'[i] # "pending") =>
               (rpc'[i] = "create" /\ sem' = sem - 1)
          /\ (Executing(i) /\ rpc'[i] \in {"done", "raised"}) =>
               sem' = sem + 1]_vars
  /\ Planned ~> ( /\ pc = "write_summary"
                  /\ summary.built
                  /\ sem = max_parallel
                  /\ \A i \in RunIdx : Finished(i) )

\* under limit 1 a batch of three runs, one of them ended by a fault, is
\* about to write its summary with every slot given back
C31_Witness ==
  /\ pc = "write_summary"
  /\ max_parallel = 1 /\ sem = 1
  /\ Len(runs) = 3
  /\ \E i \in RunIdx : rpc[i] = "raised"
  /\ \E i \in RunIdx : rpc[i] = "done"

\* C32: the number of sandboxes that were created and not terminated never
\* exceeds the limit
C32_AliveSandboxBound ==
  Cardinality({ i \in RunIdx : sb[i] = "alive" }) <= max_parallel

\* C33: the loop that turns raised runs into synthetic results never raises:
\* the batch does not end there without a summary
C33_FaultBecomesResult ==
  ~(pc = "crashed" /\ ~summary.built)

\* the words of a command
Range(cmd) == { cmd[n] : n \in 1..Len(cmd) }
\* the paths named by the words of a command
PathsOf(cmd) == { cmd[n] : n \in { m \in 1..Len(cmd) : m % 2 = 0 } }

\* C34: the command of every run names the skills directory iff the run has
\* skills enabled and the tool config iff it has tools enabled, and every
\* path it names is mounted in the image the run's sandbox is created from
C34_FlagsOfCapabilitySet ==
  \A i \in RunIdx :
    /\ ("-skills-dir" \in Range(eval_cmd(runs[i]))) <=> runs[i].skills_on
    /\ ("-mcp-config" \in Range(eval_cmd(runs[i]))) <=> runs[i].mcp_on
    /\ PathsOf(eval_cmd(runs[i])) \subseteq Mounted(ImageUsed(i))

\* an A/B batch with both augmentations whose three agents are running:
\* no argument, the skills argument, both arguments
C34_Witness ==
  /\ ab_mode /\ Len(runs) = 3
  /\ \A i \in RunIdx : rpc[i] = "agent" \/ rpc[i] = "done"
  /\ rpc[3] = "agent"
  /\ eval_cmd(runs[1]) = << >>
  /\ Len(eval_cmd(runs[2])) = 2
  /\ Len(eval_cmd(runs[3])) = 4

\* the rate key of the axis a run tuple belongs to
RateKeyOf(r) ==
  IF ~r.skills_on /\ ~r.mcp_on THEN "baseline_pass_rate"
  ELSE IF ~r.mcp_on THEN "skills_pass_rate"
  ELSE "mcp_pass_rate"

\* the tasks whose run on the axis of a rate key exited with code 0
TasksPassedOn(key) ==
  { k \in 1..Len(tasks) :
      \E i \in RunIdx : /\ runs[i].tk = k
                        /\ RateKeyOf(runs[i]) = key
                        /\ summary.results[i].exit_code = 0 }

\* the numerator of a pass rate, 0 for an axis the summary does not have
Numerator(key) == IF key \in DOMAIN summary THEN summary[key][1] ELSE 0

\* C35: in the summary of an A/B batch each pass rate counts the tasks whose
\* run on that axis exited with code 0, out of total_tasks, and the counts
\* of the axes add up to the passed total
C35_PassCountsConsistent ==
  (summary.built /\ ab_mode) =>
    /\ \A key \in RateKeys :
         /\ summary[key][1] = Cardinality(TasksPassedOn(key))
         /\ summary[key][2] = summary.total_tasks
    /\ Numerator("baseline_pass_rate") + Numerator("skills_pass_rate")
         + Numerator("mcp_pass_rate") = summary.passed

\* one task run three ways: the baseline run failed, the other two passed
C35_Witness ==
  /\ summary.built /\ ab_mode
  /\ summary.total_tasks = 1 /\ summary.total_runs = 3
  /\ summary.baseline_pass_rate = << 0, 1 >>
  /\ summary.skills_pass_rate = << 1, 1 >>
  /\ summary.mcp_pass_rate = << 1, 1 >>
  /\ summary.passed = 2 /\ summary.failed = 1

\* C36: the directory of this invocation is not the directory of another
\* invocation of the script
C36_RunIdsDistinct ==
  run_id # None => results_dir(run_id) # results_dir(strftime(other_now))

====
